---------------------------- MODULE Spec2Model ----------------------------
(***************************************************************************)
(* imsize: header-only extraction of image metadata.                       *)
(*                                                                         *)
(* The model follows src/imsize/imsize.py (read, the per-format parsers    *)
(* and _complete), src/imsize/pnmhdr.py, pfmhdr.py and exrhdr.py.          *)
(*                                                                         *)
(* A call of read() is two steps: the dispatch on the file extension, and  *)
(* the parser the extension selects.  The file on disk is an input of the  *)
(* parser: each parser action draws it from a bounded set of files that    *)
(* describes the header fields the parser decodes.                         *)
(*                                                                         *)
(* Python values are modelled as follows.  An attribute that may be None   *)
(* is a sequence: <<>> is None and <<v>> holds v.  A text is a sequence of *)
(* one-character strings.  maxval is <<"int", n>>, or <<"pow2m1", b>> for  *)
(* the integer 2^b - 1 when b > 30 (Python integers are unbounded).        *)
(* An exception is the name of its Python type.                            *)
(***************************************************************************)
EXTENDS Integers, Sequences, FiniteSets, TLC

VARIABLES
    pc,         \* "idle" | "handler" | "done": position of the read() call
    filespec,   \* the argument of read()
    handler,    \* the parser read() selected, "" when none
    file,       \* what the parser found on disk
    outcome,    \* "" while running, "record" on return, else the exception
    info,       \* the ImageInfo under construction / returned
    ncomplete,  \* how many times _complete ran in this call
    opens,      \* how many times this call opened the target file
    held,       \* handles this call acquired and its code never released
    wpos,       \* the JPEG marker walk: f.tell()
    wsegtype,   \* the JPEG marker walk: segtype, the marker code read last
    wsize       \* the JPEG marker walk: size, the segment length read last

vars == <<pc, filespec, handler, file, outcome, info, ncomplete, opens, held,
          wpos, wsegtype, wsize>>

---------------------------------------------------------------------------
(* Bounds of the model *)

MaxDim == 2         \* widths and heights of header fields range over 0..MaxDim
MaxRawSize == 40    \* generic RAW files of every size 0..MaxRawSize
MaxRawSide == 1300  \* image sides 1..MaxRawSide searched by the claims on RAW

---------------------------------------------------------------------------
(* Python values *)

None == <<>>
Some(v) == <<v>>
Val(o) == o[1]

\* Python truthiness of an optional number
Truthy(o) == o # None /\ o # <<0>>

\* Python truthiness of an optional boolean
TruthyBool(o) == o = <<TRUE>>

\* Python's "a or b"
OrElse(o, d) == IF Truthy(o) THEN o ELSE d

MvInt(n) == <<"int", n>>
MvPow(b) == <<"pow2m1", b>>

\* 2 ** b - 1
Pow2m1(b) == IF b <= 30 THEN MvInt(2^b - 1) ELSE MvPow(b)

MvTruthy(m) == m # None /\ m # MvInt(0)

\* maxval > 255
MvGt255(m) == IF m[1] = "pow2m1" THEN TRUE ELSE m[2] > 255

RECURSIVE Log2Floor(_)
\* int(math.log2(n)) for an integer n >= 1
Log2Floor(n) == IF n <= 1 THEN 0 ELSE 1 + Log2Floor(n \div 2)

\* int(math.log2(maxval + 1))
MvLog2(m) == IF m[1] = "pow2m1" THEN m[2] ELSE Log2Floor(m[2] + 1)

Dims == 0..MaxDim

---------------------------------------------------------------------------
(* ImageInfo *)

EmptyInfo ==
    [filespec |-> None, filetype |-> None, filesize |-> None,
     multi_picture |-> None, num_images |-> None, image_sizes |-> None,
     image_offsets |-> None, header_size |-> None, isfloat |-> None,
     cfa_raw |-> None, width |-> None, height |-> None, nchan |-> None,
     bitdepth |-> None, bytedepth |-> None, maxval |-> None, nbytes |-> None,
     orientation |-> None, rot90_ccw_steps |-> None, uncertain |-> None]

\* What a parser hands back to read(): a record or an exception, with the
\* number of _complete calls and of file handles opened / left unreleased.
Ret(kind, i, nc, op, hd) ==
    [kind |-> kind, info |-> i, ncomplete |-> nc, opens |-> op, held |-> hd]

Raise(kind, op, hd) == Ret(kind, EmptyInfo, 0, op, hd)

---------------------------------------------------------------------------
(* _complete *)

\* _complete raises TypeError: 2 ** None, or None in the product
CompleteRaises(i) ==
    \/ (~MvTruthy(i.maxval) /\ i.bitdepth = None)
    \/ i.width = None \/ i.height = None \/ i.nchan = None

\* info.bytedepth or (2 if info.maxval > 255 else 1)
CompleteBytedepth(i, mv) ==
    OrElse(i.bytedepth, Some(IF MvGt255(mv) THEN 2 ELSE 1))

\* _complete(info), for an info on which it does not raise; disksize is
\* os.path.getsize(info.filespec)
Complete(i, disksize) ==
    LET fs == OrElse(i.filesize, Some(disksize))
        mv == IF MvTruthy(i.maxval) THEN i.maxval ELSE Pow2m1(Val(i.bitdepth))
        bd == OrElse(i.bitdepth, Some(MvLog2(mv)))
        by == CompleteBytedepth(i, mv)
        multi == TruthyBool(i.multi_picture)
    IN [i EXCEPT
          !.filesize = fs,
          !.maxval = mv,
          !.bitdepth = bd,
          !.bytedepth = by,
          !.nbytes = Some(Val(i.width) * Val(i.height) * Val(i.nchan) * Val(by)),
          !.uncertain = IF i.uncertain = None THEN Some(FALSE) ELSE i.uncertain,
          !.orientation = OrElse(i.orientation, Some(0)),
          !.rot90_ccw_steps = OrElse(i.rot90_ccw_steps, Some(0)),
          !.header_size = OrElse(i.header_size, Some(0)),
          !.multi_picture = IF multi THEN i.multi_picture ELSE Some(FALSE),
          !.num_images = IF multi THEN i.num_images ELSE Some(1),
          !.image_sizes = IF multi THEN i.image_sizes ELSE Some(<<Val(fs)>>),
          !.image_offsets = IF multi THEN i.image_offsets ELSE Some(<<0>>)]

\* "info = _complete(info); return info" at the end of a parser
CompleteAndReturn(i, disksize, op, hd) ==
    IF CompleteRaises(i) THEN Raise("TypeError", op, hd)
    ELSE Ret("record", Complete(i, disksize), 1, op, hd)

---------------------------------------------------------------------------
(* read(): the dispatch on the extension *)

UpperChars == <<"A","B","C","D","E","F","G","H","I","J","K","L","M",
                "N","O","P","Q","R","S","T","U","V","W","X","Y","Z">>
LowerChars == <<"a","b","c","d","e","f","g","h","i","j","k","l","m",
                "n","o","p","q","r","s","t","u","v","w","x","y","z">>

\* a lookup that keeps the case of the extension
LowerCharKeepCase(c) == c

\* str.lower() on one character
LowerChar(c) ==
    IF \E k \in 1..26 : UpperChars[k] = c
    THEN LowerChars[CHOOSE k \in 1..26 : UpperChars[k] = c]
    ELSE c

Lower(s) == [k \in 1..Len(s) |-> LowerChar(s[k])]

\* str.rfind(c): the last index of c in s, 0 when there is none
RFind(s, c) ==
    IF \E k \in 1..Len(s) : s[k] = c
    THEN CHOOSE k \in 1..Len(s) : s[k] = c /\ \A j \in (k+1)..Len(s) : s[j] # c
    ELSE 0

\* os.path.basename(p)
Basename(p) == SubSeq(p, RFind(p, "/") + 1, Len(p))

\* os.path.splitext(p)[-1]: from the last dot of the last path component,
\* provided a character other than a dot precedes it in that component
Splitext(p) ==
    LET sep == RFind(p, "/")
        dot == RFind(p, ".")
    IN IF dot > sep /\ \E k \in (sep+1)..(dot-1) : p[k] # "."
       THEN SubSeq(p, dot, Len(p))
       ELSE <<>>

\* s[1:]
DropFirst(s) == SubSeq(s, 2, Len(s))

\* extension.lower()[1:]
Filetype(p) == DropFirst(Lower(Splitext(Basename(p))))

S_png == <<"p","n","g">>
S_pnm == <<"p","n","m">>
S_pgm == <<"p","g","m">>
S_ppm == <<"p","p","m">>
S_pfm == <<"p","f","m">>
S_bmp == <<"b","m","p">>
S_jpeg == <<"j","p","e","g">>
S_jpg == <<"j","p","g">>
S_insp == <<"i","n","s","p">>
S_tiff == <<"t","i","f","f">>
S_tif == <<"t","i","f">>
S_exr == <<"e","x","r">>
S_hdr == <<"h","d","r">>
S_dng == <<"d","n","g">>
S_cr2 == <<"c","r","2">>
S_nef == <<"n","e","f">>
S_raw == <<"r","a","w">>
S_npy == <<"n","p","y">>
S_exif == <<"e","x","i","f">>

\* the handlers dictionary of read()
Handlers ==
    { <<S_png, "_read_png">>, <<S_pnm, "_read_pnm">>, <<S_pgm, "_read_pnm">>,
      <<S_ppm, "_read_pnm">>, <<S_pfm, "_read_pfm">>, <<S_bmp, "_read_bmp">>,
      <<S_jpeg, "_read_jpeg">>, <<S_jpg, "_read_jpeg">>,
      <<S_insp, "_read_insp">>, <<S_tiff, "_read_tiff">>,
      <<S_tif, "_read_tiff">>, <<S_exr, "_read_exr">>, <<S_hdr, "_read_hdr">>,
      <<S_dng, "_read_dng">>, <<S_cr2, "_read_cr2">>, <<S_nef, "_read_nef">>,
      <<S_raw, "_read_raw">>, <<S_npy, "_read_npy">> }

Recognized(ft) == \E h \in Handlers : h[1] = ft

HandlerOf(ft) == (CHOOSE h \in Handlers : h[1] = ft)[2]

\* The paths given to read()
Paths ==
    { <<"a",".">> \o S_png, <<"a",".","P","N","G">>, <<"a",".">> \o S_pnm,
      <<"a",".">> \o S_pgm, <<"a",".">> \o S_ppm, <<"a",".">> \o S_pfm,
      <<"a",".">> \o S_bmp, <<"a",".">> \o S_jpeg, <<"a",".","J","p","G">>,
      <<"a",".">> \o S_insp, <<"a",".">> \o S_tiff, <<"a",".">> \o S_tif,
      <<"a",".">> \o S_exr, <<"a",".">> \o S_hdr, <<"a",".">> \o S_dng,
      <<"a",".">> \o S_cr2, <<"a",".">> \o S_nef, <<"a",".">> \o S_raw,
      <<"d","/","a",".">> \o S_npy,
      \* not in the table
      <<"a",".","X","y","z">>, <<"a">>, <<"a",".">>, <<".","p","n","g">>,
      <<"d",".","p","n","g","/","a">>, <<"a",".","r","a","w",".","G","Z">> }

\* os.path.getsize() of a file with an unrecognized extension
UnknownSizes == {0, 1000}

\* the else branch of read(): unrecognized file extension
UnknownInfo(p, size) ==
    [EmptyInfo EXCEPT !.filespec = Some(p), !.filetype = Some(Filetype(p)),
                      !.filesize = Some(size), !.nbytes = Some(size),
                      !.uncertain = Some(TRUE)]

---------------------------------------------------------------------------
(* _read_png *)

PngColorTypes == {0, 2, 3, 4, 6}

\* the color type -> channels table
PngNchan(ct) ==
    CASE ct = 0 -> 1 [] ct = 2 -> 3 [] ct = 3 -> 3 [] ct = 4 -> 2 [] ct = 6 -> 4

\* the first 26 bytes of a .png file: whether the signature and the IHDR
\* tag are there, and the four IHDR fields
PngFiles ==
    [sig : BOOLEAN, tag : BOOLEAN, width : Dims, height : Dims,
     bitdepth : {0, 1, 8, 16}, colortype : PngColorTypes \cup {5},
     size : {1000}]

\* _read_png: ihdr is bound only inside the if; the statements that use it
\* follow the if unconditionally, so a bad signature ends in
\* UnboundLocalError at "info.width = ihdr[0]".  The with block releases
\* the handle on every path.
ReadPng(p, f) ==
    IF ~(f.sig /\ f.tag) THEN Raise("UnboundLocalError", 1, 0)
    ELSE IF f.colortype \notin PngColorTypes THEN Raise("KeyError", 1, 0)
    ELSE CompleteAndReturn(
           [EmptyInfo EXCEPT !.filespec = Some(p), !.filetype = Some(S_png),
                             !.isfloat = Some(FALSE), !.cfa_raw = Some(FALSE),
                             !.width = Some(f.width), !.height = Some(f.height),
                             !.bitdepth = Some(f.bitdepth),
                             !.nchan = Some(PngNchan(f.colortype))],
           f.size, 1, 0)

---------------------------------------------------------------------------
(* pnmhdr.dims and _read_pnm *)

\* The header of a .pnm/.pgm/.ppm file: the magic, the whitespace after the
\* magic, after the width and after the height ("sp" a space, "nl" a
\* newline), and the three numbers; a newline follows the maxval.
PnmFiles ==
    [magic : {"P5", "P6", "P3"},
     seps : { <<"sp","sp","sp">>, <<"nl","sp","nl">>, <<"sp","nl","sp">> },
     width : Dims, height : Dims, maxval : {0, 1, 255, 300, 65535},
     size : {1000}]

\* f.readline(): the header tokens that are on the first line of the file
PnmFirstLineTokens(f) ==
    IF f.seps[1] = "nl" THEN 1
    ELSE IF f.seps[2] = "nl" THEN 2
    ELSE IF f.seps[3] = "nl" THEN 3
    ELSE 4

\* re.search(b"(^(P[56])\s+(\d+)\s+(\d+)\s+(\d+)\s)", header) on the line
PnmMatches(f) == f.magic \in {"P5", "P6"} /\ PnmFirstLineTokens(f) = 4

ReadPnm(p, f) ==
    IF ~PnmMatches(f) THEN Raise("RuntimeError", 1, 0)
    ELSE CompleteAndReturn(
           [EmptyInfo EXCEPT !.filespec = Some(p), !.filetype = Some(S_pnm),
                             !.isfloat = Some(FALSE), !.cfa_raw = Some(FALSE),
                             !.width = Some(f.width), !.height = Some(f.height),
                             !.nchan = Some(IF f.magic = "P6" THEN 3 ELSE 1),
                             !.maxval = MvInt(f.maxval)],
           f.size, 1, 0)

---------------------------------------------------------------------------
(* pfmhdr.dims and _read_pfm *)

Abs(n) == IF n < 0 THEN 0 - n ELSE n

\* The first 64 bytes of a .pfm file: magic, width, height, scale
PfmFiles ==
    [magic : {"PF", "Pf", "P6"}, width : Dims, height : Dims,
     scale : {0 - 1, 0, 1, 255}, size : {1000}]

ReadPfm(p, f) ==
    IF f.magic \notin {"PF", "Pf"} THEN Raise("RuntimeError", 1, 0)
    ELSE CompleteAndReturn(
           [EmptyInfo EXCEPT !.filespec = Some(p), !.filetype = Some(S_pfm),
                             !.isfloat = Some(TRUE), !.cfa_raw = Some(FALSE),
                             !.width = Some(f.width), !.height = Some(f.height),
                             !.nchan = Some(IF f.magic = "PF" THEN 3 ELSE 1),
                             !.maxval = MvInt(Abs(f.scale)),
                             !.bitdepth = Some(32), !.bytedepth = Some(4)],
           f.size, 1, 0)

---------------------------------------------------------------------------
(* _read_hdr *)

\* A .hdr file: whether the first line is "#?RADIANCE", whether a blank
\* line follows in the header, and the "-Y <height> +X <width>" line
HdrFiles ==
    [magic : BOOLEAN, blank : BOOLEAN, width : Dims, height : Dims,
     size : {1000}]

ReadHdr(p, f) ==
    IF ~f.magic \/ ~f.blank THEN Raise("RuntimeError", 1, 0)
    ELSE CompleteAndReturn(
           [EmptyInfo EXCEPT !.filespec = Some(p), !.filetype = Some(S_hdr),
                             !.filesize = Some(f.size),
                             !.isfloat = Some(TRUE), !.cfa_raw = Some(FALSE),
                             !.nchan = Some(3),
                             !.bitdepth = Some(32), !.bytedepth = Some(4),
                             !.height = Some(f.height), !.width = Some(f.width)],
           f.size, 1, 0)

---------------------------------------------------------------------------
(* _read_bmp *)

BmpBpps == {1, 2, 4, 8, 16, 24, 32}

\* the bits per pixel -> channels table
BmpNchan(bpp) ==
    CASE bpp = 1 -> 1 [] bpp = 2 -> 3 [] bpp = 4 -> 3 [] bpp = 8 -> 3
      [] bpp = 16 -> 4 [] bpp = 24 -> 3 [] bpp = 32 -> 4

\* The two headers of a .bmp file: whether the magic is "BM", and the
\* width, height and bits per pixel of the DIB header
BmpFiles ==
    [magic : BOOLEAN, width : Dims, height : Dims,
     bpp : {1, 8, 16, 24, 32, 12}, size : {1000}]

\* _read_bmp: "info = _complete(info)" follows the if unconditionally, so
\* a bad magic reaches _complete with nothing decoded, which raises
\* TypeError (CompleteRaises); "raise RuntimeError" is never reached.
ReadBmp(p, f) ==
    LET i0 == [EmptyInfo EXCEPT !.filespec = Some(p), !.filetype = Some(S_bmp),
                                !.isfloat = Some(FALSE), !.cfa_raw = Some(FALSE)]
    IN IF ~f.magic THEN CompleteAndReturn(i0, f.size, 1, 0)
       ELSE IF f.bpp \notin BmpBpps THEN Raise("KeyError", 1, 0)
       ELSE CompleteAndReturn(
              [i0 EXCEPT !.width = Some(f.width), !.height = Some(f.height),
                         !.nchan = Some(BmpNchan(f.bpp)),
                         !.maxval = MvInt(255)],
              f.size, 1, 0)

---------------------------------------------------------------------------
(* exrhdr.dims and _read_exr *)

\* An attribute of an EXR header.  A channels attribute lists the pixel
\* type code of each channel (0 uint, 1 half, 2 float); a dataWindow
\* attribute holds <<xmin, ymin, xmax, ymax>>.
ExrChannels(types) == [name |-> "channels", types |-> types, box |-> <<>>]
ExrDataWindow(box) == [name |-> "dataWindow", types |-> <<>>, box |-> box]
ExrOther == [name |-> "other", types |-> <<>>, box |-> <<>>]

ExrChannelLists == { <<>>, <<0>>, <<1>>, <<2>>, <<1, 1, 1>>, <<1, 2>> }

ExrBoxes == { <<xmin, 0, xmax, ymax>> : xmin \in {0, 1}, xmax \in Dims, ymax \in Dims }

ExrAttrLists ==
    UNION { { <<ExrChannels(c), ExrDataWindow(b)>>,
              <<ExrDataWindow(b), ExrChannels(c)>>,
              <<ExrOther, ExrChannels(c), ExrOther, ExrDataWindow(b)>>,
              <<ExrChannels(c)>>, <<ExrDataWindow(b), ExrOther>>,
              <<ExrOther>>, <<>> } : c \in ExrChannelLists, b \in ExrBoxes }

\* A .exr file: whether the magic is there, and the attributes of the header
ExrFiles == [magic : BOOLEAN, attrs : ExrAttrLists, size : {1000}]

RECURSIVE ExrChannelScan(_, _, _)
RECURSIVE ExrChannelScanHalfAsInt(_, _, _)
\* a scan that takes only pixel type 2 (float) as floating point
ExrChannelScanHalfAsInt(types, k, acc) ==
    IF k > Len(types) THEN acc
    ELSE ExrChannelScanHalfAsInt(types, k + 1,
           << acc[1] + 1,
              acc[2] \/ types[k] > 1,
              IF types[k] = 1 THEN acc[3] ELSE 32 >>)

\* the inner loop over the channel list: acc is <<nchan, isfloat, bitdepth>>
ExrChannelScan(types, k, acc) ==
    IF k > Len(types) THEN acc
    ELSE ExrChannelScan(types, k + 1,
           << acc[1] + 1,
              acc[2] \/ types[k] > 0,
              IF types[k] = 1 THEN acc[3] ELSE 32 >>)

RECURSIVE ExrWalk(_, _, _, _)
\* the loop "while not (got_channels and got_dims)" from attribute k on;
\* ch and dm are None until the attribute was found.  A read past the last
\* attribute ends in IndexError (np.frombuffer(...)[0] on an empty read).
ExrWalk(attrs, k, ch, dm) ==
    IF ch # None /\ dm # None
    THEN [kind |-> "ok", width |-> Val(dm)[1], height |-> Val(dm)[2],
          nchan |-> Val(ch)[1], isfloat |-> Val(ch)[2], bitdepth |-> Val(ch)[3]]
    ELSE IF k > Len(attrs) THEN [kind |-> "IndexError"]
    ELSE IF attrs[k].name = "channels"
    THEN ExrWalk(attrs, k + 1,
                 Some(ExrChannelScan(attrs[k].types, 1, <<0, FALSE, 16>>)), dm)
    ELSE IF attrs[k].name = "dataWindow"
    THEN ExrWalk(attrs, k + 1, ch,
                 Some(<< attrs[k].box[3] - attrs[k].box[1] + 1,
                         attrs[k].box[4] - attrs[k].box[2] + 1 >>))
    ELSE ExrWalk(attrs, k + 1, ch, dm)

\* exrhdr.dims(filespec)
ExrDims(f) ==
    IF ~f.magic THEN [kind |-> "RuntimeError"] ELSE ExrWalk(f.attrs, 1, None, None)

ReadExr(p, f) ==
    LET d == ExrDims(f)
    IN IF d.kind # "ok" THEN Raise(d.kind, 1, 0)
       ELSE CompleteAndReturn(
              [EmptyInfo EXCEPT !.filespec = Some(p), !.filetype = Some(S_exr),
                                !.cfa_raw = Some(FALSE), !.maxval = MvInt(1),
                                !.width = Some(d.width), !.height = Some(d.height),
                                !.nchan = Some(d.nchan),
                                !.isfloat = Some(d.isfloat),
                                !.bitdepth = Some(d.bitdepth),
                                !.bytedepth = Some(d.bitdepth \div 8)],
              f.size, 1, 0)

---------------------------------------------------------------------------
(* _read_npy *)

\* numpy dtypes: <<item size in bytes, is a floating-point type>>
NpyDtypes == { <<1, FALSE>>, <<2, FALSE>>, <<2, TRUE>>, <<4, TRUE>>, <<8, TRUE>> }

RECURSIVE SeqsUpTo(_, _)
\* the sequences over S of length at most n
SeqsUpTo(S, n) ==
    IF n = 0 THEN { <<>> }
    ELSE LET shorter == SeqsUpTo(S, n - 1)
         IN shorter \cup { Append(q, x) : q \in shorter, x \in S }

NpyShapes == SeqsUpTo(1..MaxDim, 4) \cup { <<10, 20, 5>>, <<10, 20>> }

\* the header lengths a file declares in the two bytes after the version
NpyHeaderLens == {0, 118, 32767, 32768, 40000, 65534, 65535}

\* what follows the header: array bytes that are all whitespace, that are
\* text, or that are not UTF-8
NpyDataKinds == {"blank", "text", "binary"}

\* A .npy file: whether the magic is there, the header length hlen it
\* declares, the dtype and shape of the header dictionary of hlen bytes
\* (no dictionary and no shape when hlen is 0), and the kind of the array
\* bytes
NpyFiles ==
    [magic : BOOLEAN, dtype : NpyDtypes, shape : NpyShapes, size : {1000},
     hlen : {118}, data : {"binary"}]
    \cup { [magic |-> TRUE, dtype |-> <<2, FALSE>>,
            shape |-> IF L = 0 THEN <<>> ELSE sh,
            size |-> 10 + L + 400, hlen |-> L, data |-> k] :
            sh \in { <<10, 20>>, <<10, 20, 1>> }, L \in NpyHeaderLens,
            k \in NpyDataKinds }

\* struct.unpack("<h", ...) of the two bytes that hold v
Signed16(v) == IF v >= 32768 THEN v - 65536 ELSE v

\* npyfile.read(header_size) and ast.literal_eval of the bytes read: a
\* size below -1 is refused, -1 reads the header and the array to the end
\* of the file, any other size reads that many bytes
NpyHeader(f) ==
    LET header_size == Signed16(f.hlen)
    IN IF header_size < -1 THEN [kind |-> "ValueError", nread |-> 0]
       ELSE IF header_size = -1
       THEN [kind |-> CASE f.data = "blank" -> "dict"
                        [] f.data = "text" -> "SyntaxError"
                        [] OTHER -> "UnicodeDecodeError",
             nread |-> f.size - 10]
       ELSE [kind |-> IF header_size = 0 THEN "SyntaxError" ELSE "dict",
             nread |-> header_size]

\* len(shape) in [2, 3]
NpyRankOk(shape) == Len(shape) \in {2, 3}

\* 1 if len(shape) < 3 else shape[2]
NpyNchan(shape) == IF Len(shape) < 3 THEN 1 ELSE shape[3]

ReadNpy(p, f) ==
    IF ~f.magic THEN Raise("AssertionError", 1, 0)
    ELSE IF NpyHeader(f).kind # "dict" THEN Raise(NpyHeader(f).kind, 1, 0)
    ELSE IF ~NpyRankOk(f.shape) THEN Raise("RuntimeError", 1, 0)
    ELSE LET bytedepth == f.dtype[1]
             bitdepth == bytedepth * 8
         IN CompleteAndReturn(
              [EmptyInfo EXCEPT !.filespec = Some(p), !.filetype = Some(S_npy),
                                !.cfa_raw = Some(FALSE),
                                !.height = Some(f.shape[1]),
                                !.width = Some(f.shape[2]),
                                !.nchan = Some(NpyNchan(f.shape)),
                                !.isfloat = Some(f.dtype[2]),
                                !.bytedepth = Some(bytedepth),
                                !.bitdepth = Some(bitdepth),
                                !.maxval = IF f.dtype[2] THEN MvInt(1)
                                           ELSE Pow2m1(bitdepth)],
              f.size, 1, 0)

---------------------------------------------------------------------------
(* _read_cr2 *)

OptDims == { None } \cup { Some(d) : d \in Dims }

\* A .cr2 file: whether piexif.load accepts it, and the ImageWidth and
\* ImageLength tags of its 0th IFD (None when absent)
Cr2Files == [loads : BOOLEAN, width : OptDims, height : OptDims, size : {1000}]

\* _read_cr2: piexif.load opens the file itself and closes it
ReadCr2(p, f) ==
    IF ~f.loads THEN Raise("InvalidImageDataError", 1, 0)
    ELSE CompleteAndReturn(
           [EmptyInfo EXCEPT !.filespec = Some(p), !.filetype = Some(S_cr2),
                             !.uncertain = Some(TRUE),
                             !.isfloat = Some(FALSE), !.cfa_raw = Some(TRUE),
                             !.width = f.width, !.height = f.height,
                             !.nchan = Some(1), !.bytedepth = Some(2),
                             !.bitdepth = Some(14)],
           f.size, 1, 0)

---------------------------------------------------------------------------
(* Bit depth inferred from the largest sample: _read_nef, _read_raw *)

RECURSIVE CeilLog2(_)
\* np.ceil(np.log2(m)) for m >= 1: the least k with 2^k >= m
CeilLog2(m) == IF m <= 1 THEN 0 ELSE 1 + CeilLog2((m + 1) \div 2)

\* np.ceil(k / 2) * 2
EvenUp(k) == 2 * ((k + 1) \div 2)

Max(a, b) == IF a >= b THEN a ELSE b

\* int(max(np.ceil(np.ceil(np.log2(m)) / 2) * 2, minimum)); log2(0) is -inf
InferBitdepth(m, minimum) ==
    IF m = 0 THEN minimum ELSE Max(EvenUp(CeilLog2(m)), minimum)

\* the largest 16-bit sample of a sensor dump
MaxSamples == {0, 1, 1023, 1024, 1025, 4095, 4096, 16384, 65535}

---------------------------------------------------------------------------
(* _read_nef *)

\* A .nef file: whether rawpy decodes it, and the shape and the largest
\* sample of the visible sensor array
NefFiles ==
    [decodes : BOOLEAN, width : 1..MaxDim, height : 1..MaxDim,
     maxsample : MaxSamples, size : {1000}]

\* _read_nef: the RawPy object rawpy.imread returns is never closed
ReadNef(p, f) ==
    IF ~f.decodes THEN Raise("LibRawError", 1, 0)
    ELSE CompleteAndReturn(
           [EmptyInfo EXCEPT !.filespec = Some(p), !.filetype = Some(S_nef),
                             !.uncertain = Some(TRUE),
                             !.isfloat = Some(FALSE), !.cfa_raw = Some(TRUE),
                             !.nchan = Some(1), !.bytedepth = Some(2),
                             !.height = Some(f.height), !.width = Some(f.width),
                             !.bitdepth = Some(InferBitdepth(f.maxsample, 12))],
           f.size, 1, 1)

---------------------------------------------------------------------------
(* _read_raw *)

RECURSIVE ISqrtIn(_, _, _)
\* the largest s in lo..hi with s * s <= n, given lo * lo <= n
ISqrtIn(n, lo, hi) ==
    IF lo >= hi THEN lo
    ELSE LET mid == (lo + hi + 1) \div 2
         IN IF mid * mid <= n THEN ISqrtIn(n, mid, hi) ELSE ISqrtIn(n, lo, mid - 1)

\* floor(sqrt(n)) for 0 <= n < 2^31
ISqrt(n) == ISqrtIn(n, 0, 46340)

\* the candidate aspect ratios, height : width = p : q, in the order tried
RawAspects == << <<3, 4>>, <<2, 3>>, <<9, 16>> >>

\* With numpixels = F / 2 and aspect p/q, height = sqrt(F*p / (2*q)) and
\* width = numpixels / height = sqrt(F*q / (2*p)).  The float results are
\* compared exactly as the reals are, for the file sizes of the model.

\* int(sqrt(num / den))
RootFloor(num, den) == ISqrt(num \div den)

\* sqrt(num / den) % 4 == 0
RootRem4Zero(num, den) ==
    LET r == RootFloor(num, den)
    IN num % den = 0 /\ r * r = num \div den /\ r % 4 = 0

\* sqrt(num / den) % 4 < 0.5
RootRem4Small(num, den) ==
    LET r == RootFloor(num, den)
    IN r % 4 = 0 /\ 4 * num < den * (4 * r * r + 4 * r + 1)

\* an exact rule that accepts every integral width and height
RawExactIntegral(F, a) ==
    LET hn == F * a[1]  hd == 2 * a[2]  wn == F * a[2]  wd == 2 * a[1]
    IN /\ wn % wd = 0 /\ RootFloor(wn, wd) * RootFloor(wn, wd) = wn \div wd
       /\ hn % hd = 0 /\ RootFloor(hn, hd) * RootFloor(hn, hd) = hn \div hd

\* wrem4 == 0 and hrem4 == 0
RawExact(F, a) ==
    /\ RootRem4Zero(F * a[2], 2 * a[1])
    /\ RootRem4Zero(F * a[1], 2 * a[2])

\* wrem4 < 0.5 and hrem4 < 0.5
RawNear(F, a) ==
    /\ RootRem4Small(F * a[2], 2 * a[1])
    /\ RootRem4Small(F * a[1], 2 * a[2])

\* a width rounded up instead of truncated
RawWidthRoundedUp(F, a) == RootFloor(F * a[2], 2 * a[1]) + 1

\* int(info.width), int(info.height)
RawWidth(F, a) == RootFloor(F * a[2], 2 * a[1])

RawHeight(F, a) == RootFloor(F * a[1], 2 * a[2])

RECURSIVE RawGuess(_, _)
\* the loop over the aspect ratios from the k-th on, for F > 0: the
\* accepted <<width, height, header_size>>, or None when none fits
RawGuess(F, k) ==
    IF k > Len(RawAspects) THEN None
    ELSE LET a == RawAspects[k]
             w == RawWidth(F, a)
             h == RawHeight(F, a)
         IN IF RawExact(F, a) THEN Some(<<w, h, 0>>)
            ELSE IF RawNear(F, a) THEN Some(<<w, h, F - w * h * 2>>)
            ELSE RawGuess(F, k + 1)

RawSizes ==
    (0..MaxRawSize) \cup {96, 192, 193, 208, 209, 384, 385, 408, 409, 912,
                          20000, 1280 * 960 * 2}

\* A .raw file: its size in bytes and its largest 16-bit sample
RawFiles == [size : RawSizes, maxsample : MaxSamples]

\* _read_raw: a file of size 0 divides by zero in the first iteration;
\* when no aspect ratio fits, the record is returned as it is, without
\* _complete and without the file having been opened.
ReadRaw(p, f) ==
    LET i0 == [EmptyInfo EXCEPT !.filespec = Some(p), !.filetype = Some(S_raw),
                                !.uncertain = Some(TRUE),
                                !.isfloat = Some(FALSE), !.cfa_raw = Some(TRUE),
                                !.nchan = Some(1), !.bytedepth = Some(2),
                                !.header_size = Some(0),
                                !.filesize = Some(f.size)]
    IN IF f.size = 0 THEN Raise("ZeroDivisionError", 0, 0)
       ELSE LET g == RawGuess(f.size, 1)
            IN IF g = None THEN Ret("record", i0, 0, 0, 0)
               ELSE CompleteAndReturn(
                      [i0 EXCEPT !.width = Some(Val(g)[1]),
                                 !.height = Some(Val(g)[2]),
                                 !.header_size = Some(Val(g)[3]),
                                 !.bitdepth = Some(InferBitdepth(f.maxsample, 10))],
                      f.size, 1, 0)

---------------------------------------------------------------------------
(* EXIF orientation: _read_exif_orientation, _read_exif *)

\* the Orientation tag of a file: None when absent
ExifTags == { None } \cup { Some(t) : t \in 0..9 }

\* exif_to_rot90
ExifToRot90(o) ==
    CASE o = 1 -> 0 [] o = 2 -> 0 [] o = 3 -> 2 [] o = 4 -> 0
      [] o = 5 -> 1 [] o = 6 -> 3 [] o = 7 -> 3 [] o = 8 -> 1

\* "if info.orientation in exif_to_rot90: info.rot90_ccw_steps = ..."
Rot90Of(o) ==
    IF o # None /\ Val(o) \in 1..8 THEN Some(ExifToRot90(Val(o))) ELSE None

\* _read_exif_orientation, given the tag piexif found
ReadExifOrientation(tag) ==
    [EmptyInfo EXCEPT !.orientation = tag, !.rot90_ccw_steps = Rot90Of(tag)]

---------------------------------------------------------------------------
(* _read_jpeg, _read_insp *)

\* A marker segment as the walk meets it: the marker code, the declared
\* length, the MPF block when the payload starts with "MPF\0", and the
\* frame header <<precision, height, width, components>> of a SOF segment
Segment(segtype, size, mpf, sof) ==
    [segtype |-> segtype, size |-> size, mpf |-> mpf, sof |-> sof]

\* 0xc0 <= segtype <= 0xcf and segtype not in [0xc4, 0xc8, 0xcc]
IsSOF(t) == 192 <= t /\ t <= 207 /\ t \notin {196, 200, 204}

\* The fields of an MPF block after its endian marker; entries are the
\* <<size, offset>> pairs of the MP entries
Mpf(e1, e2) ==
    [ifd_offset |-> 8, count |-> 3, version_tag |-> 45056, version |-> "0100",
     nimages_tag |-> 45057, nimages |-> 2, mpentry_tag |-> 45058,
     entries |-> << <<100, e1>>, <<50, e2>> >>]

MpfGood == { Mpf(e1, e2) : e1 \in {0, 30}, e2 \in {0, 30, 200, 5000} }

MpfBad ==
    { [Mpf(0, 30) EXCEPT !.ifd_offset = 0], [Mpf(0, 30) EXCEPT !.count = 4],
      [Mpf(0, 30) EXCEPT !.version_tag = 0],
      [Mpf(0, 30) EXCEPT !.version = "0200"],
      [Mpf(0, 30) EXCEPT !.nimages_tag = 0],
      [Mpf(0, 30) EXCEPT !.nimages = 3],
      [Mpf(0, 30) EXCEPT !.mpentry_tag = 0] }

\* a validation that checks the number of images only
MpfLayoutCountOnly(m) == m.nimages = 2

\* the seven assert statements
MpfLayoutOk(m) ==
    /\ m.ifd_offset = 8 /\ m.count = 3 /\ m.version_tag = 45056
    /\ m.version = "0100" /\ m.nimages_tag = 45057 /\ m.nimages = 2
    /\ m.mpentry_tag = 45058

App0 == Segment(224, 16, None, None)
App2Plain == Segment(226, 30, None, None)
App2Mpf(m) == Segment(226, 90, Some(m), None)
Dht == Segment(196, 20, None, None)
Sof(t, bits, h, w) == Segment(t, 17, None, Some(<<bits, h, w, 3>>))

SofSegments == { Sof(192, bits, h, w) : bits \in {8, 12}, h \in 1..MaxDim, w \in 1..MaxDim }

JpegPlainLayouts ==
    { <<sof>> : sof \in SofSegments }
    \cup { <<App0, [sof EXCEPT !.segtype = 194]>> : sof \in SofSegments }
    \cup { <<App2Plain, Dht, Sof(192, 8, 1, 2)>>, <<App0, Dht>>, <<>> }

JpegMpfLayouts ==
    UNION { { <<App2Mpf(m), Sof(192, 8, 1, 2)>>,
              <<App0, App2Mpf(m), Dht, Sof(192, 8, 2, 1)>> } :
            m \in MpfGood \cup MpfBad }
    \cup { <<App0, Sof(192, 8, 1, 2), App2Mpf(m)>> : m \in MpfBad }

RECURSIVE SegmentsEnd(_, _)
\* the position after the first k segments of a file that starts with SOI
SegmentsEnd(segs, k) ==
    IF k = 0 THEN 2 ELSE SegmentsEnd(segs, k - 1) + 2 + segs[k].size

\* A .jpg/.jpeg/.insp file: what its first bytes are ("jpeg" the SOI
\* marker, "tiff" a TIFF header, "other" anything else), the EXIF
\* orientation tag, the marker segments after SOI and the file size
JpegFile(lead, tag, segs, tail) ==
    [lead |-> lead, orientation |-> tag, segs |-> segs,
     size |-> SegmentsEnd(segs, Len(segs)) + tail]

JpegFiles ==
    { JpegFile("jpeg", t, segs, 200) : t \in ExifTags, segs \in JpegPlainLayouts }
    \cup { JpegFile("jpeg", t, segs, tail) :
             t \in {None, Some(6)}, segs \in JpegMpfLayouts, tail \in {0, 200} }
    \cup { JpegFile("tiff", t, <<>>, 200) : t \in {None, Some(6)} }
    \cup { JpegFile("other", None, <<>>, 200) }

\* offset + prev_pos + 4
MpfOffset(offset, prev_pos) == offset + prev_pos + 4

\* the body of "if f.read(4) == b'MPF\x00'", for a block that passes the
\* asserts: the loop over the MP entries
MpfInfo(i, m, prev_pos) ==
    [i EXCEPT !.multi_picture = Some(TRUE),
              !.num_images = Some(m.nimages),
              !.image_sizes = Some([k \in 1..m.nimages |-> m.entries[k][1]]),
              !.image_offsets =
                  Some([k \in 1..m.nimages |-> MpfOffset(m.entries[k][2], prev_pos)])]

RECURSIVE JpegWalk(_, _, _, _)
\* the while loop from the k-th segment on, its marker at position pos
JpegWalk(segs, k, pos, i) ==
    IF k > Len(segs) THEN [kind |-> "struct.error", info |-> i]
    ELSE LET seg == segs[k]
             prev_pos == pos + 4
             mpf == seg.segtype = 226 /\ seg.mpf # None
         IN IF mpf /\ ~MpfLayoutOk(Val(seg.mpf))
            THEN [kind |-> "AssertionError", info |-> i]
            ELSE LET i1 == IF mpf THEN MpfInfo(i, Val(seg.mpf), prev_pos) ELSE i
                 IN IF IsSOF(seg.segtype)
                    THEN [kind |-> "ok",
                          info |-> [i1 EXCEPT !.bitdepth = Some(Val(seg.sof)[1]),
                                              !.height = Some(Val(seg.sof)[2]),
                                              !.width = Some(Val(seg.sof)[3]),
                                              !.nchan = Some(Val(seg.sof)[4])]]
                    ELSE JpegWalk(segs, k + 1, pos + 2 + seg.size, i1)

\* _read_jpeg: piexif.load opens and closes the file, then the parser
\* opens it again in a with block
ReadJpeg(p, f) ==
    IF f.lead = "other" THEN Raise("InvalidImageDataError", 1, 0)
    ELSE IF f.lead # "jpeg" THEN Raise("RuntimeError", 2, 0)
    ELSE LET i0 == [ReadExifOrientation(f.orientation) EXCEPT
                       !.filespec = Some(p), !.filetype = Some(S_jpeg),
                       !.isfloat = Some(FALSE), !.cfa_raw = Some(FALSE)]
             w == JpegWalk(f.segs, 1, 2, i0)
         IN IF w.kind # "ok" THEN Raise(w.kind, 2, 0)
            ELSE CompleteAndReturn(w.info, f.size, 2, 0)

\* _read_insp: the record of _read_jpeg, relabelled
ReadInsp(p, f) ==
    LET r == ReadJpeg(p, f)
    IN IF r.kind = "record"
       THEN [r EXCEPT !.info = [r.info EXCEPT !.filetype = Some(S_insp)]]
       ELSE r

---------------------------------------------------------------------------
(* _read_exif, _read_tiff, _read_dng *)

\* The tags of one sub-image of an EXIF container; bits is BitsPerSample,
\* one number per sample
SubImage(w, h, spp, bits, tag, photometric) ==
    [width |-> w, height |-> h, spp |-> spp, bits |-> bits,
     orientation |-> tag, photometric |-> photometric]

Thumbnail == SubImage(1, 1, 3, <<8, 8, 8>>, Some(3), 2)

TiffImages ==
    { SubImage(w, h, spp, bits, tag, ph) :
        w \in 1..MaxDim, h \in 1..MaxDim, spp \in {1, 3},
        bits \in { <<8, 8, 8>>, <<16>>, <<32>> }, tag \in ExifTags,
        ph \in {2, 32803} }

\* the sub-images "Image", "SubImage1", "SubImage2", "SubImage3"
TiffLayouts ==
    UNION { { << Some(r), None, None, None >>,
              << Some(Thumbnail), Some(r), None, None >>,
              << None, None, None, Some(r) >> } : r \in TiffImages }
    \cup { << None, None, None, None >> }

\* A .tif/.tiff/.dng file: whether pyexiv2 can open it, and its sub-images
TiffFiles ==
    { [opened |-> TRUE, subs |-> l, size |-> 1000] : l \in TiffLayouts }
    \cup { [opened |-> FALSE, subs |-> << None, None, None, None >>, size |-> 0] }

\* int(w or 0) of a sub-image's ImageWidth
WidthOrZero(sub) == IF sub = None THEN 0 ELSE Val(sub).width

\* np.argmax: the first index of the largest element
ArgMax(ws) ==
    CHOOSE k \in 1..Len(ws) :
        /\ \A j \in 1..Len(ws) : ws[j] <= ws[k]
        /\ \A j \in 1..(k - 1) : ws[j] < ws[k]

\* _read_exif: the pyexiv2.Image is never closed.  A sub-image without
\* tags ends in TypeError at int(None).
ReadExif(p, f) ==
    IF ~f.opened THEN Raise("RuntimeError(exiv2)", 1, 0)
    ELSE LET maximg == f.subs[ArgMax([k \in 1..4 |-> WidthOrZero(f.subs[k])])]
         IN IF maximg = None THEN Raise("TypeError", 1, 1)
            ELSE LET sub == Val(maximg)
                     orientation == IF sub.orientation = None THEN Some(0)
                                    ELSE sub.orientation
                 IN CompleteAndReturn(
                      [EmptyInfo EXCEPT
                          !.filespec = Some(p), !.filetype = Some(S_exif),
                          !.isfloat = Some(FALSE),
                          !.cfa_raw = Some(sub.photometric \in {32803, 34892}),
                          !.width = Some(sub.width), !.height = Some(sub.height),
                          !.nchan = Some(sub.spp),
                          !.orientation = orientation,
                          !.rot90_ccw_steps = Rot90Of(orientation),
                          !.bitdepth = Some(sub.bits[1])],
                      f.size, 1, 1)

Relabel(r, filetype) ==
    IF r.kind = "record"
    THEN [r EXCEPT !.info = [r.info EXCEPT !.filetype = Some(filetype)]]
    ELSE r

ReadTiff(p, f) == Relabel(ReadExif(p, f), S_tiff)

ReadDng(p, f) == Relabel(ReadExif(p, f), S_dng)

---------------------------------------------------------------------------
(* The call *)

Init ==
    /\ pc = "idle"
    /\ filespec = <<>>
    /\ handler = ""
    /\ file = <<>>
    /\ outcome = ""
    /\ info = EmptyInfo
    /\ ncomplete = 0
    /\ opens = 0
    /\ held = 0
    /\ wpos = 0
    /\ wsegtype = 0
    /\ wsize = 0

\* read(filespec) with an extension of the handlers table: select the parser
Dispatch ==
    /\ pc = "idle"
    /\ \E p \in Paths :
        /\ Recognized(Filetype(p))
        /\ filespec' = p
        /\ handler' = HandlerOf(Filetype(p))
    /\ pc' = "handler"
    /\ UNCHANGED <<file, outcome, info, ncomplete, opens, held>>
    /\ UNCHANGED <<wpos, wsegtype, wsize>>

\* read(filespec) with an unrecognized extension: the minimal record
ReadUnknown ==
    /\ pc = "idle"
    /\ \E p \in Paths, size \in UnknownSizes :
        /\ ~Recognized(Filetype(p))
        /\ filespec' = p
        /\ file' = [size |-> size]
        /\ info' = UnknownInfo(p, size)
    /\ handler' = ""
    /\ outcome' = "record"
    /\ pc' = "done"
    /\ UNCHANGED <<ncomplete, opens, held, wpos, wsegtype, wsize>>

\* the parser runs and read() returns what it returned, or raises
Finish(f, r) ==
    /\ file' = f
    /\ outcome' = r.kind
    /\ info' = r.info
    /\ ncomplete' = r.ncomplete
    /\ opens' = r.opens
    /\ held' = r.held
    /\ pc' = "done"
    /\ UNCHANGED <<filespec, handler, wpos, wsegtype, wsize>>

DoReadPng ==
    /\ pc = "handler" /\ handler = "_read_png"
    /\ \E f \in PngFiles : Finish(f, ReadPng(filespec, f))

DoReadPnm ==
    /\ pc = "handler" /\ handler = "_read_pnm"
    /\ \E f \in PnmFiles : Finish(f, ReadPnm(filespec, f))

DoReadPfm ==
    /\ pc = "handler" /\ handler = "_read_pfm"
    /\ \E f \in PfmFiles : Finish(f, ReadPfm(filespec, f))

DoReadHdr ==
    /\ pc = "handler" /\ handler = "_read_hdr"
    /\ \E f \in HdrFiles : Finish(f, ReadHdr(filespec, f))

DoReadBmp ==
    /\ pc = "handler" /\ handler = "_read_bmp"
    /\ \E f \in BmpFiles : Finish(f, ReadBmp(filespec, f))

DoReadExr ==
    /\ pc = "handler" /\ handler = "_read_exr"
    /\ \E f \in ExrFiles : Finish(f, ReadExr(filespec, f))

DoReadNpy ==
    /\ pc = "handler" /\ handler = "_read_npy"
    /\ \E f \in NpyFiles : Finish(f, ReadNpy(filespec, f))

DoReadCr2 ==
    /\ pc = "handler" /\ handler = "_read_cr2"
    /\ \E f \in Cr2Files : Finish(f, ReadCr2(filespec, f))

DoReadNef ==
    /\ pc = "handler" /\ handler = "_read_nef"
    /\ \E f \in NefFiles : Finish(f, ReadNef(filespec, f))

DoReadRaw ==
    /\ pc = "handler" /\ handler = "_read_raw"
    /\ \E f \in RawFiles : Finish(f, ReadRaw(filespec, f))

DoReadJpeg ==
    /\ pc = "handler" /\ handler = "_read_jpeg"
    /\ \E f \in JpegFiles : Finish(f, ReadJpeg(filespec, f))

DoReadInsp ==
    /\ pc = "handler" /\ handler = "_read_insp"
    /\ \E f \in JpegFiles : Finish(f, ReadInsp(filespec, f))

DoReadTiff ==
    /\ pc = "handler" /\ handler = "_read_tiff"
    /\ \E f \in TiffFiles : Finish(f, ReadTiff(filespec, f))

DoReadDng ==
    /\ pc = "handler" /\ handler = "_read_dng"
    /\ \E f \in TiffFiles : Finish(f, ReadDng(filespec, f))

\* the caller has the result; the next call starts afresh
Return ==
    /\ pc = "done"
    /\ pc' = "idle"
    /\ filespec' = <<>>
    /\ handler' = ""
    /\ file' = <<>>
    /\ outcome' = ""
    /\ info' = EmptyInfo
    /\ ncomplete' = 0
    /\ opens' = 0
    /\ held' = 0
    /\ wpos' = 0
    /\ wsegtype' = 0
    /\ wsize' = 0

Next ==
    \/ Dispatch
    \/ ReadUnknown
    \/ DoReadPng
    \/ DoReadPnm
    \/ DoReadPfm
    \/ DoReadHdr
    \/ DoReadBmp
    \/ DoReadExr
    \/ DoReadNpy
    \/ DoReadCr2
    \/ DoReadNef
    \/ DoReadRaw
    \/ DoReadJpeg
    \/ DoReadInsp
    \/ DoReadTiff
    \/ DoReadDng
    \/ Return

Spec == Init /\ [][Next]_vars

---------------------------------------------------------------------------
(* The marker walk of _read_jpeg, one loop iteration per step, on the bytes
   of the file *)

MaxFragments == 3   \* marker segments and fillers after SOI in a byte file

\* struct ">H" / "<H" at the 0-based offset at of the bytes b
U16(b, at, be) ==
    IF be THEN 256 * b[at + 1] + b[at + 2] ELSE b[at + 1] + 256 * b[at + 2]

\* struct ">I" / "<I" at the 0-based offset at
U32(b, at, be) ==
    IF be THEN 65536 * U16(b, at, be) + U16(b, at + 2, be)
    ELSE U16(b, at, be) + 65536 * U16(b, at + 2, be)

\* n zero bytes
Zeros(n) == [k \in 1..n |-> 0]

\* the marker and the declared length of a segment
MarkerBytes(t, n) == <<255, t, n \div 256, n % 256>>

\* the number v as two or four bytes in the byte order
Bytes16(v, be) == IF be THEN <<v \div 256, v % 256>> ELSE <<v % 256, v \div 256>>
Bytes32(v, be) == IF be THEN <<0, 0>> \o Bytes16(v, be) ELSE Bytes16(v, be) \o <<0, 0>>

\* An APP2 segment with an MPF block: signature, endian marker, IFD offset
\* and entry count, the MPFVersion, NumberOfImages and MPEntry entries, the
\* next-IFD offset and two 16-byte MP entries
MpfSegmentBytes(be, version) ==
    MarkerBytes(226, 88) \o <<77, 80, 70, 0>>
      \o (IF be THEN <<77, 77, 0, 42>> ELSE <<73, 73, 42, 0>>)
      \o Bytes32(8, be) \o Bytes16(3, be)
      \o Bytes16(45056, be) \o Zeros(6) \o version
      \o Bytes16(45057, be) \o Zeros(6) \o Bytes32(2, be)
      \o Bytes16(45058, be) \o Zeros(10)
      \o Bytes32(0, be)
      \o Bytes32(0, be) \o Bytes32(100, be) \o Bytes32(0, be) \o Zeros(4)
      \o Bytes32(0, be) \o Bytes32(50, be) \o Bytes32(30, be) \o Zeros(4)

\* a start-of-frame segment: precision, height, width, components
SofBytes(t, bits, h, w) == MarkerBytes(t, 8) \o <<bits, 0, h, 0, w, 3>>

\* The pieces byte files are made of: a segment with its payload, whose
\* marker 0xC4 is not a start of frame; segments that declare the length
\* 0 or 1; two filler bytes that read as a marker with a length; MPF
\* blocks in both byte orders, one with another version; a frame header
Fragments ==
    { MarkerBytes(196, 3) \o <<7>>,
      MarkerBytes(224, 0),
      MarkerBytes(224, 1),
      <<0, 2>>,
      MpfSegmentBytes(FALSE, <<48, 49, 48, 48>>),
      MpfSegmentBytes(TRUE, <<48, 50, 48, 48>>),
      SofBytes(192, 8, 1, 2) }

RECURSIVE FragmentSeqs(_)
\* the concatenations of at most n fragments
FragmentSeqs(n) ==
    IF n = 0 THEN { <<>> }
    ELSE LET shorter == FragmentSeqs(n - 1)
         IN shorter \cup { b \o fr : b \in shorter, fr \in Fragments }

\* The byte files: SOI and fragments, whole or cut short by 5 bytes; and
\* two files that do not start with SOI
JpegByteFiles ==
    UNION { { SubSeq(b, 1, n) : n \in {Len(b), Len(b) - 5} \cap 2..Len(b) } :
            b \in { <<255, 216>> \o t : t \in FragmentSeqs(MaxFragments) } }
    \cup { <<73, 73, 42, 0, 8, 0, 0, 0>>, <<255, 224, 0, 4, 9, 9>> }

\* f.read(n) at the offset at returns all n bytes
Avail(b, at, n) == at + n <= Len(b)

\* a seek that skips the segment from its marker on
WalkSeekFromMarker(at, sz) == at + sz - 4

\* f.seek(size - 2, 1): the position of the next marker
WalkSeek(at, sz) == at + sz - 2

\* The fields of the MPF block whose signature is at prev_pos, as the
\* struct.unpack calls decode them
MpfDecode(b, prev_pos) ==
    LET be == SubSeq(b, prev_pos + 5, prev_pos + 8) = <<77, 77, 0, 42>>
        at == prev_pos + 8
    IN [ifd_offset |-> U32(b, at, be), count |-> U16(b, at + 4, be),
        version_tag |-> U16(b, at + 6, be),
        version |-> IF SubSeq(b, at + 15, at + 18) = <<48, 49, 48, 48>>
                    THEN "0100" ELSE "other",
        nimages_tag |-> U16(b, at + 18, be), nimages |-> U32(b, at + 26, be),
        mpentry_tag |-> U16(b, at + 30, be),
        entries |-> IF Avail(b, prev_pos, 54 + 16 * 2)
                    THEN [k \in 1..2 |->
                            << U32(b, at + 46 + 16 * (k - 1) + 4, be),
                               U32(b, at + 46 + 16 * (k - 1) + 8, be) >>]
                    ELSE <<>>]

\* The body of "if segtype == 0xe2" with the position prev_pos after the
\* segment header: nothing without the signature; struct.error when the
\* file ends inside the block; AssertionError on a layout deviation
MpfInspect(b, prev_pos, i) ==
    IF ~Avail(b, prev_pos, 4) \/ SubSeq(b, prev_pos + 1, prev_pos + 4) # <<77, 80, 70, 0>>
    THEN [kind |-> "ok", info |-> i]
    ELSE IF ~Avail(b, prev_pos, 54) THEN [kind |-> "struct.error", info |-> i]
    ELSE LET m == MpfDecode(b, prev_pos)
         IN IF ~MpfLayoutOk(m) THEN [kind |-> "AssertionError", info |-> i]
            ELSE IF ~Avail(b, prev_pos, 54 + 16 * m.nimages)
            THEN [kind |-> "struct.error", info |-> i]
            ELSE [kind |-> "ok", info |-> MpfInfo(i, m, prev_pos)]

\* the walk fails: the exception leaves read()
WalkRaise(kind) ==
    /\ pc' = "done"
    /\ outcome' = kind
    /\ info' = EmptyInfo
    /\ held' = 0
    /\ UNCHANGED <<filespec, handler, file, ncomplete, opens, wpos, wsegtype, wsize>>

\* _read_jpeg up to the loop: the EXIF orientation was loaded, the file is
\* opened and the first two bytes are compared with SOI
WalkOpen ==
    /\ pc = "idle"
    /\ \E b \in JpegByteFiles, t \in {None, Some(6)} :
        /\ file' = b
        /\ IF SubSeq(b, 1, 2) = <<255, 216>>
           THEN /\ pc' = "walk"
                /\ outcome' = ""
                /\ info' = [ReadExifOrientation(t) EXCEPT
                              !.filespec = Some(<<"a", ".">> \o S_jpg),
                              !.filetype = Some(S_jpeg),
                              !.isfloat = Some(FALSE), !.cfa_raw = Some(FALSE)]
                /\ wpos' = 2 /\ wsize' = 2 /\ wsegtype' = 0
           ELSE /\ pc' = "done"
                /\ outcome' = "RuntimeError"
                /\ info' = EmptyInfo
                /\ UNCHANGED <<wpos, wsize, wsegtype>>
    /\ filespec' = <<"a", ".">> \o S_jpg
    /\ handler' = "_read_jpeg"
    /\ opens' = 2
    /\ UNCHANGED <<ncomplete, held>>

\* one iteration of the while loop
WalkStep ==
    /\ pc = "walk" /\ ~IsSOF(wsegtype)
    /\ LET at == WalkSeek(wpos, wsize)
       IN IF ~Avail(file, at, 4) THEN WalkRaise("struct.error")
          ELSE LET t == file[at + 2]
                   prev_pos == at + 4
                   r == IF t = 226 THEN MpfInspect(file, prev_pos, info)
                        ELSE [kind |-> "ok", info |-> info]
               IN IF r.kind # "ok" THEN WalkRaise(r.kind)
                  ELSE /\ wsegtype' = t
                       /\ wsize' = U16(file, at + 2, TRUE)
                       /\ wpos' = prev_pos
                       /\ info' = r.info
                       /\ UNCHANGED <<pc, filespec, handler, file, outcome,
                                      ncomplete, opens, held>>

\* after the loop: the frame header is decoded and the record completed
WalkSof ==
    /\ pc = "walk" /\ IsSOF(wsegtype)
    /\ IF ~Avail(file, wpos, 6) THEN WalkRaise("struct.error")
       ELSE LET r == CompleteAndReturn(
                       [info EXCEPT !.bitdepth = Some(file[wpos + 1]),
                                    !.height = Some(U16(file, wpos + 1, TRUE)),
                                    !.width = Some(U16(file, wpos + 3, TRUE)),
                                    !.nchan = Some(file[wpos + 6])],
                       Len(file), 2, 0)
            IN /\ pc' = "done"
               /\ outcome' = r.kind
               /\ info' = r.info
               /\ ncomplete' = r.ncomplete
               /\ UNCHANGED <<filespec, handler, file, opens, held,
                              wpos, wsegtype, wsize>>

WalkNext ==
    \/ WalkOpen
    \/ WalkStep
    \/ WalkSof

\* the interpreter runs the loop on: an enabled iteration is taken
WalkSpec ==
    Init /\ [][WalkNext]_vars /\ WF_vars(WalkStep) /\ WF_vars(WalkSof)

---------------------------------------------------------------------------
(* Claims *)

Done == pc = "done"

\* read() ran a parser of the handlers table and returned its record
ParserReturned == pc = "done" /\ handler # "" /\ outcome = "record"

JpegHandlers == {"_read_jpeg", "_read_insp"}
ExifHandlers == {"_read_tiff", "_read_dng"}

\* C1: every record read() returns for a recognized extension has width,
\* height, nchan, bytedepth and nbytes set, and nbytes is their product; on
\* every return path, the generic RAW parser's no-fit path included.
C1_NbytesIsProduct ==
    ParserReturned =>
        /\ info.width # None /\ info.height # None /\ info.nchan # None
        /\ info.bytedepth # None /\ info.nbytes # None
        /\ Val(info.nbytes) = Val(info.width) * Val(info.height)
                                * Val(info.nchan) * Val(info.bytedepth)

\* ceil(bitdepth / 8) rounded up to a power of two
ContainerBytes(bits) ==
    LET bytes == (bits + 7) \div 8
    IN CHOOSE c \in {1, 2, 4, 8, 16, 32} :
         c >= bytes /\ \A d \in {1, 2, 4, 8, 16, 32} : d >= bytes => c <= d

\* C2: in every completed record bytedepth is 1, 2 or 4 and is the
\* power-of-two container of bitdepth (1..8 -> 1, 9..16 -> 2, 17..32 -> 4),
\* for every format.
C2_BytedepthIsContainer ==
    (Done /\ outcome = "record" /\ ncomplete >= 1) =>
        /\ Val(info.bytedepth) \in {1, 2, 4}
        /\ Val(info.bytedepth) = ContainerBytes(Val(info.bitdepth))

\* the rotation table of the specification
RotationTable == (1 :> 0) @@ (2 :> 0) @@ (3 :> 2) @@ (4 :> 0) @@
                 (5 :> 1) @@ (6 :> 3) @@ (7 :> 3) @@ (8 :> 1)

\* the widest sub-image of an EXIF container, the first one on a tie
WidestSubImage(subs) ==
    LET k == CHOOSE k \in 1..4 :
               /\ subs[k] # None
               /\ \A j \in 1..4 : subs[j] # None =>
                     \/ Val(subs[j]).width < Val(subs[k]).width
                     \/ (Val(subs[j]).width = Val(subs[k]).width /\ j >= k)
    IN Val(subs[k])

\* the orientation tag of the file a JPEG or EXIF parser read
OrientationTag ==
    IF handler \in JpegHandlers THEN file.orientation
    ELSE WidestSubImage(file.subs).orientation

\* C3: for JPEG/INSP and TIFF/DNG records a tag in 1..8 is returned as the
\* orientation, with rot90_ccw_steps from the table, and any other or no
\* tag gives rot90_ccw_steps 0; a record of a format with no orientation
\* source has orientation 0 and rot90_ccw_steps 0.
C3_Orientation ==
    ParserReturned =>
        IF handler \in JpegHandlers \cup ExifHandlers
        THEN LET tag == OrientationTag
             IN IF tag # None /\ Val(tag) \in 1..8
                THEN /\ info.orientation = tag
                     /\ info.rot90_ccw_steps = Some(RotationTable[Val(tag)])
                ELSE info.rot90_ccw_steps = Some(0)
        ELSE info.orientation = Some(0) /\ info.rot90_ccw_steps = Some(0)

\* the paths of the model whose extension is not in the dispatch table,
\* each with its lowercased extension
UnknownPaths ==
    { << <<"a",".","X","y","z">>, <<"x","y","z">> >>,
      << <<"a">>, <<>> >>,
      << <<"a",".">>, <<>> >>,
      << <<".","p","n","g">>, <<>> >>,
      << <<"d",".","p","n","g","/","a">>, <<>> >>,
      << <<"a",".","r","a","w",".","G","Z">>, <<"g","z">> >> }

\* C4: read() of a file whose lowercased extension is not in the dispatch
\* table (or that has none) never fails: it returns a record with the
\* filespec verbatim, the lowercased extension as filetype, the on-disk
\* size as filesize and nbytes, uncertain true, width and height absent.
C4_UnknownExtension ==
    \A u \in UnknownPaths :
        (pc # "idle" /\ filespec = u[1]) =>
            /\ pc = "done" /\ handler = "" /\ outcome = "record"
            /\ info.filespec = Some(u[1])
            /\ info.filetype = Some(u[2])
            /\ info.filesize = Some(file.size)
            /\ info.nbytes = info.filesize
            /\ info.uncertain = Some(TRUE)
            /\ info.width = None /\ info.height = None

C4_Witness ==
    /\ Done /\ filespec = <<"a",".","X","y","z">>
    /\ info.filetype = Some(<<"x","y","z">>) /\ info.nbytes = Some(1000)

\* C5: reading a .png file without the PNG signature, or without the IHDR
\* tag at bytes 12..15, fails with the parser's format error
\* (RuntimeError "not a valid PNG file") and with no other error.
C5_PngFormatError ==
    (Done /\ handler = "_read_png" /\ ~(file.sig /\ file.tag)) =>
        outcome = "RuntimeError"

\* C6: an NPY file with valid magic and shape (H, W, C) gives height H,
\* width W, nchan C, and with shape (H, W) nchan 1; bytedepth is the dtype
\* item size, bitdepth 8 * bytedepth, nbytes W * H * nchan * bytedepth; a
\* shape of any other rank fails and returns no record.
C6_NpyShape ==
    (Done /\ handler = "_read_npy" /\ file.magic) =>
        LET shape == file.shape
            rank == Len(shape)
            itemsize == file.dtype[1]
        IN IF rank \in {2, 3}
           THEN LET c == IF rank = 3 THEN shape[3] ELSE 1
                IN /\ outcome = "record"
                   /\ info.height = Some(shape[1])
                   /\ info.width = Some(shape[2])
                   /\ info.nchan = Some(c)
                   /\ info.bytedepth = Some(itemsize)
                   /\ info.bitdepth = Some(8 * itemsize)
                   /\ info.nbytes = Some(shape[2] * shape[1] * c * itemsize)
           ELSE outcome \notin {"", "record"} /\ info = EmptyInfo

\* the MPF segment of a file the JPEG walk reads: the first APP2 segment
\* with an MPF block, 0 when there is none
MpfIndex(segs) ==
    IF \E k \in 1..Len(segs) : segs[k].mpf # None
    THEN CHOOSE k \in 1..Len(segs) :
           segs[k].mpf # None /\ \A j \in 1..(k - 1) : segs[j].mpf = None
    ELSE 0

\* the position of the endian marker of the MPF block in segment k: the
\* marker, the length and "MPF\0" take 8 bytes
EndianPos(segs, k) == SegmentsEnd(segs, k - 1) + 8

\* C7: for a JPEG with a layout-conforming MPF block declaring 2 images,
\* read() returns multi_picture true, num_images 2, two image sizes and
\* two image offsets, each offset the stored MP entry offset plus the
\* position of the MPF endian marker (the first entry included); the
\* offsets are strictly increasing and each is a byte position inside the
\* file, 0 <= offset < filesize.
C7_MpfOffsets ==
    (Done /\ handler \in JpegHandlers /\ file.lead = "jpeg"
          /\ MpfIndex(file.segs) > 0) =>
        LET k == MpfIndex(file.segs)
            m == Val(file.segs[k].mpf)
            base == EndianPos(file.segs, k)
        IN MpfLayoutOk(m) =>
             /\ outcome = "record"
             /\ info.multi_picture = Some(TRUE)
             /\ info.num_images = Some(2)
             /\ Len(Val(info.image_sizes)) = 2
             /\ info.image_offsets =
                   Some(<<m.entries[1][2] + base, m.entries[2][2] + base>>)
             /\ Val(info.image_offsets)[1] < Val(info.image_offsets)[2]
             /\ \A j \in 1..2 :
                  /\ 0 <= Val(info.image_offsets)[j]
                  /\ Val(info.image_offsets)[j] < Val(info.filesize)

\* <<width, height>> with 2 * width * height = F and height : width = a,
\* both integral; None when there is no such pair
IntegralDims(F, a) ==
    IF \E h \in 1..MaxRawSide :
          F * a[1] = 2 * a[2] * h * h /\ (h * a[2]) % a[1] = 0
    THEN LET h == CHOOSE h \in 1..MaxRawSide :
                    F * a[1] = 2 * a[2] * h * h /\ (h * a[2]) % a[1] = 0
         IN Some(<< (h * a[2]) \div a[1], h >>)
    ELSE None

\* width and height for aspect a are both less than 0.5 above a multiple
\* of 4 (an exact multiple included)
FitsNear4(F, a) ==
    /\ \E w \in 0..MaxRawSide :
          /\ w % 4 = 0
          /\ 2 * a[1] * w * w <= F * a[2]
          /\ 4 * F * a[2] < 2 * a[1] * (2 * w + 1) * (2 * w + 1)
    /\ \E h \in 0..MaxRawSide :
          /\ h % 4 = 0
          /\ 2 * a[2] * h * h <= F * a[1]
          /\ 4 * F * a[1] < 2 * a[2] * (2 * h + 1) * (2 * h + 1)

RawDone == Done /\ handler = "_read_raw" /\ file.size > 0

C9_CompletedExactlyOnce ==
    ParserReturned =>
        /\ ncomplete = 1
        /\ info.filesize # None /\ info.maxval # None /\ info.bitdepth # None
        /\ info.bytedepth # None /\ info.nbytes # None
        /\ info.uncertain # None /\ info.orientation # None
        /\ info.rot90_ccw_steps # None /\ info.header_size # None
        /\ info.multi_picture # None /\ info.num_images # None
        /\ info.image_sizes # None /\ info.image_offsets # None

\* C10: a read() call that runs a parser opens exactly one handle on the
\* file, and no handle is left unreleased when it returns or raises.
C10_OneHandleReleased ==
    (Done /\ handler # "") => (opens = 1 /\ held = 0)


\* C11: a .pnm/.pgm/.ppm file whose header is P5 or P6, width, height and
\* maxval separated by any whitespace, newlines between the tokens
\* included, is read successfully: the record has that width and height,
\* nchan 3 for P6 and 1 for P5, and the maxval as given.
C11_PnmAnyWhitespace ==
    (Done /\ handler = "_read_pnm" /\ file.magic \in {"P5", "P6"}
          /\ file.maxval >= 1) =>
        /\ outcome = "record"
        /\ info.width = Some(file.width) /\ info.height = Some(file.height)
        /\ info.nchan = Some(IF file.magic = "P6" THEN 3 ELSE 1)
        /\ info.maxval = MvInt(file.maxval)

\* no aspect ratio of the guesser fits a file of F bytes
RawNoFit(F) == \A k \in 1..3 : ~FitsNear4(F, RawAspects[k])

\* a file the tests of the repository expect read() to reject: an empty
\* .dng, .cr2 or .nef, or a .raw of a size that fits no candidate layout
NotRecognizedInput ==
    \/ handler = "_read_dng" /\ ~file.opened
    \/ handler = "_read_cr2" /\ ~file.loads
    \/ handler = "_read_nef" /\ ~file.decodes
    \/ handler = "_read_raw" /\ file.size > 0 /\ RawNoFit(file.size)

\* C12: read() on an empty .dng, .cr2 or .nef file, or on a .raw file
\* whose size fits none of the candidate layouts (20000 bytes), raises
\* ImageFileError; it returns no record and raises no other error.
C12_ImageFileError ==
    (Done /\ NotRecognizedInput) => outcome = "ImageFileError"

\* C13: the generic RAW parser never fails: for a .raw file of any size,
\* 0 included, read() returns a record with filetype "raw", uncertain
\* true and cfa_raw true; when no aspect ratio fits, width and height are
\* unset.
C13_RawNeverFails ==
    (Done /\ handler = "_read_raw") =>
        /\ outcome = "record"
        /\ info.filetype = Some(S_raw)
        /\ info.uncertain = Some(TRUE) /\ info.cfa_raw = Some(TRUE)
        /\ RawNoFit(file.size) => (info.width = None /\ info.height = None)

\* the file read does not carry the signature of its format
BadSignature ==
    \/ handler \in {"_read_bmp", "_read_npy", "_read_exr", "_read_hdr"}
         /\ ~file.magic
    \/ handler = "_read_pnm" /\ file.magic \notin {"P5", "P6"}
    \/ handler = "_read_pfm" /\ file.magic \notin {"PF", "Pf"}

\* C14: a signature mismatch in a BMP, NPY, EXR, Radiance HDR, PNM or PFM
\* file makes read() fail with the parser's format error (RuntimeError
\* "not a valid ... file"), the same kind for every format, and no record
\* is returned.
C14_UniformFormatError ==
    (Done /\ BadSignature) => (outcome = "RuntimeError" /\ info = EmptyInfo)

\* r is sqrt(num / den) rounded to the nearest integer
NearestRoot(r, num, den) ==
    /\ (2 * r - 1) * (2 * r - 1) * den <= 4 * num
    /\ 4 * num < (2 * r + 1) * (2 * r + 1) * den

\* C15: whenever the RAW guesser finds dimensions, bytedepth is 2,
\* header_size >= 0 and filesize = header_size + width * height *
\* bytedepth; header_size is 0 when the match is exact; width and height
\* are the real width and height of one of the aspect ratios rounded to
\* the nearest integer, and header_size is the residual.
C15_RawByteAccounting ==
    (RawDone /\ outcome = "record" /\ info.width # None) =>
        LET w == Val(info.width)
            h == Val(info.height)
            hs == Val(info.header_size)
            F == file.size
        IN /\ info.bytedepth = Some(2) /\ info.filesize = Some(F)
           /\ hs >= 0
           /\ F = hs + w * h * 2
           /\ \E k \in 1..3 :
                LET a == RawAspects[k]
                IN /\ NearestRoot(w, F * a[2], 2 * a[1])
                   /\ NearestRoot(h, F * a[1], 2 * a[2])
                   /\ (IntegralDims(F, a) = Some(<<w, h>>)) => hs = 0

C15_Witness ==
    /\ RawDone /\ file.size = 208 /\ outcome = "record"
    /\ info.width = Some(12) /\ info.height = Some(8)
    /\ info.header_size = Some(16) /\ info.nbytes = Some(192)


\* the layout deviations of an MPF block
MpfDeviates(m) ==
    \/ m.ifd_offset # 8 \/ m.count # 3 \/ m.version_tag # 45056
    \/ m.version # "0100" \/ m.nimages_tag # 45057 \/ m.mpentry_tag # 45058

\* segment k of the file is an APP2 segment with the "MPF\0" signature
\* whose layout deviates
DeviatingMpfAt(k) ==
    /\ file.segs[k].segtype = 226 /\ file.segs[k].mpf # None
    /\ MpfDeviates(Val(file.segs[k].mpf))

JpegDone == Done /\ handler \in JpegHandlers /\ file.lead = "jpeg"

SomeOtherType(types, t) == \E k \in 1..Len(types) : types[k] # t

\* C18: for an EXR header with both attributes, in either order and with
\* other attributes between them, nchan is the number of channels,
\* bitdepth 16 if every channel is of type 1 (half) and 32 otherwise,
\* isfloat true iff some channel has a non-zero type, bytedepth =
\* bitdepth / 8, maxval 1.0, width = xmax - xmin + 1 and height =
\* ymax - ymin + 1.
C18_ExrFields ==
    (Done /\ handler = "_read_exr" /\ file.magic) =>
        \A c \in 1..Len(file.attrs), d \in 1..Len(file.attrs) :
            (/\ file.attrs[c].name = "channels"
             /\ file.attrs[d].name = "dataWindow") =>
                LET types == file.attrs[c].types
                    box == file.attrs[d].box
                    bits == IF SomeOtherType(types, 1) THEN 32 ELSE 16
                IN /\ outcome = "record"
                   /\ info.nchan = Some(Len(types))
                   /\ info.bitdepth = Some(bits)
                   /\ info.isfloat = Some(SomeOtherType(types, 0))
                   /\ info.bytedepth = Some(bits \div 8)
                   /\ info.maxval = MvInt(1)
                   /\ info.width = Some(box[3] - box[1] + 1)
                   /\ info.height = Some(box[4] - box[2] + 1)

C18_Witness ==
    /\ Done /\ handler = "_read_exr" /\ file.magic /\ outcome = "record"
    /\ Len(file.attrs) = 4 /\ file.attrs[2].types = <<1, 2>>
    /\ file.attrs[4].box = <<1, 0, 2, 1>>
    /\ info.nchan = Some(2) /\ info.bitdepth = Some(32)
    /\ info.isfloat = Some(TRUE) /\ info.bytedepth = Some(4)
    /\ info.width = Some(2) /\ info.height = Some(2)

\* the header has no attribute of that name
ExrLacks(name) == \A k \in 1..Len(file.attrs) : file.attrs[k].name # name

\* C19: for an EXR file with valid magic in which 'channels' or
\* 'dataWindow' is absent, the attribute walk ends, when the attribute
\* list or the file ends, with the format error of a magic mismatch
\* (RuntimeError "not a valid EXR file") and with no other error kind.
C19_ExrMissingAttribute ==
    (Done /\ handler = "_read_exr" /\ file.magic
          /\ (ExrLacks("channels") \/ ExrLacks("dataWindow"))) =>
        outcome = "RuntimeError"

\* maxval <= 2^bits - 1
MvFits(mv, bits) ==
    IF mv[1] = "pow2m1" THEN mv[2] <= bits
    ELSE bits >= 31 \/ mv[2] + 1 <= 2 ^ bits

\* C20: in every completed non-float record maxval <= 2^bitdepth - 1,
\* whether bitdepth was derived from a maxval the format supplies (PNM
\* with any maxval in 1..65535, BMP with 255) or maxval from bitdepth.
C20_MaxvalFitsBitdepth ==
    (Done /\ outcome = "record" /\ ncomplete >= 1
          /\ info.isfloat = Some(FALSE)) =>
        MvFits(info.maxval, Val(info.bitdepth))

RECURSIVE MarkerChain(_, _)
\* The markers of the bytes b from the 0-based offset at on, each one found
\* 2 + its declared length after the one before: the offset after the
\* header of the first start-of-frame marker, or the end of the file
MarkerChain(b, at) ==
    IF at + 4 > Len(b) THEN [kind |-> "eof", pos |-> at]
    ELSE IF IsSOF(b[at + 2]) THEN [kind |-> "sof", pos |-> at + 4]
    ELSE MarkerChain(b, at + 2 + 256 * b[at + 3] + b[at + 4])

\* a walk of a file that starts with SOI has ended
WalkDone == pc = "done" /\ handler = "_read_jpeg" /\ Len(file) >= 2
                /\ file[1] = 255 /\ file[2] = 216

\* the walk ended at the first start-of-frame marker and the record has
\* its precision, height, width and component count
EndedAtFirstSof ==
    LET e == MarkerChain(file, 2)
    IN /\ e.kind = "sof" /\ e.pos + 6 <= Len(file)
       /\ outcome = "record"
       /\ info.bitdepth = Some(file[e.pos + 1])
       /\ info.height = Some(256 * file[e.pos + 2] + file[e.pos + 3])
       /\ info.width = Some(256 * file[e.pos + 4] + file[e.pos + 5])
       /\ info.nchan = Some(file[e.pos + 6])

\* the walk ended with the failure of a read at the end of the file
EndedAtEndOfFile == outcome = "struct.error"

\* the walk ended at an APP2 segment with an MPF block that fails an assert
EndedAtMpfAssert == outcome = "AssertionError"

\* C16 (as stated): the walk of a file that starts with SOI ends either at
\* the first marker in 0xC0..0xCF other than 0xC4, 0xC8, 0xCC, whose
\* precision, height, width and component count become bitdepth, height,
\* width and nchan, or with a failure at the end of the file.
C16_EndsAtSofOrEndOfFile ==
    WalkDone => (EndedAtFirstSof \/ EndedAtEndOfFile)

\* C16 (amended): every loop iteration moves the read position forward by
\* the declared segment length plus 2, at least 2 bytes; the walk of a
\* file that starts with SOI always ends; and it ends at the first
\* start-of-frame marker, with a failure at the end of the file, or with
\* the failed assertion of an MPF block met before that marker.
C16_WalkTerminates ==
    /\ [][(pc = "walk" /\ pc' = "walk") =>
            (wpos' = wpos + wsize + 2 /\ wpos' >= wpos + 2)]_vars
    /\ [](pc = "walk" => wpos <= Len(file))
    /\ (pc = "walk") ~> (pc = "done")
    /\ [](WalkDone => (EndedAtFirstSof \/ EndedAtEndOfFile \/ EndedAtMpfAssert))

\* a segment that declares the length 0 was walked over, then the frame
\* header was found
C16_Witness ==
    /\ WalkDone /\ outcome = "record"
    /\ SubSeq(file, 1, 8) = <<255, 216, 255, 224, 0, 0, 0, 2>>
    /\ wpos = 12 /\ wsegtype = 192
    /\ info.width = Some(2) /\ info.height = Some(1)

\* C21: the NPY parser reads the header length as an unsigned
\* little-endian 16-bit integer: for every header length L in 0..65535,
\* L >= 32768 included, exactly the L header bytes that follow the 10-byte
\* preamble are read and parsed as the header dictionary, so a file whose
\* header holds a dictionary with a shape of rank 2 or 3 gives a record.
C21_NpyHeaderLengthUnsigned ==
    (Done /\ handler = "_read_npy" /\ file.magic) =>
        /\ NpyHeader(file).nread = file.hlen
        /\ (file.hlen > 0 /\ Len(file.shape) \in {2, 3}) =>
              /\ outcome = "record"
              /\ info.height = Some(file.shape[1])
              /\ info.width = Some(file.shape[2])

\* the sample m is not above the maximum value mv of a record
SampleFits(m, mv) ==
    IF mv[1] = "pow2m1" THEN mv[2] >= 31 \/ m <= 2 ^ mv[2] - 1
    ELSE m <= mv[2]

\* C22: for NEF and generic RAW the inferred bit depth holds the largest
\* sample present: for every 16-bit sample array with maximum m >= 1,
\* m <= 2^bitdepth - 1 = maxval, also when m is an exact power of two.
C22_BitdepthHoldsLargestSample ==
    (Done /\ handler \in {"_read_nef", "_read_raw"} /\ outcome = "record"
          /\ ncomplete >= 1 /\ file.maxsample >= 1) =>
        /\ file.maxsample <= 2 ^ Val(info.bitdepth) - 1
        /\ SampleFits(file.maxsample, info.maxval)

============================================================================
